---- MODULE Spec2Model ----
(***************************************************************************)
(* Model of the conversation-backup tools:                                 *)
(*   - claude-to-markdown-v3.py: the reconciling converter (session        *)
(*     identity, path scheme, read-modify-write of the artifact);          *)
(*   - migrate-duplicates.py: the duplicate consolidator.                  *)
(* Text is modelled as TLA+ strings, handled with Len, \o and SubSeq, so   *)
(* that prefixes, splits, strips and renderings are computed as the code   *)
(* computes them.  A file is the sequence of the lines written to it.      *)
(***************************************************************************)
EXTENDS Integers, Sequences, FiniteSets, Bags, TLC

VARIABLES
    clock,      \* wall clock, seconds since 2024-01-01T00:00:00 (datetime.now())
    device,     \* device label of the machine the converter runs on
    tree,       \* output tree of the converter: path -> file (sequence of lines)
    last,       \* the latest convert_conversation call: inputs and outcome
    nconv,      \* number of convert_conversation calls so far
    res,        \* resolver: the latest session-key resolution
    resPrev,    \* resolver: the resolution before it
    dirs,       \* consolidator: the directories of the vault
    pc,         \* consolidator: where main is
    sessions,   \* consolidator: the groups, in the order of the dict
    gi,         \* consolidator: index of the group the loop is at
    log,        \* consolidator: best_file and new_path of the groups processed
    files_migrated,
    duplicates_removed,
    orig,       \* the tree the consolidator was started on
    nvanish,    \* number of files removed by others during the run
    raised,     \* consolidator: the exception that left main, "" if none
    jsonl_files, \* batch: the files found that the loop has not reached yet
    created,    \* batch: the counters of main
    updated,
    failed,
    nfiles,     \* batch: number of input files processed
    summary,    \* batch: the loop is over and the summary is printed
    source,     \* v2 batch: the source directory, log file -> lines
    converted_sessions, \* v2 batch: the session ids taken as converted
    converted,  \* v2 batch: the counters of main
    skipped,
    run,        \* v2 batch: number of runs started
    arg,        \* a function of the converters applied alone: its input
    out         \* ... and its result

convVars == <<clock, device, tree, last, nconv>>
resVars == <<res, resPrev>>
migVars ==
    <<dirs, pc, sessions, gi, log, files_migrated, duplicates_removed, orig, nvanish, raised>>
batchVars ==
    <<jsonl_files, created, updated, failed, nfiles, summary, source, converted_sessions,
      converted, skipped, run>>
fnVars == <<arg, out>>
vars == <<convVars, resVars, migVars, batchVars, fnVars>>

-----------------------------------------------------------------------------
(* Bounds of the model *)

\* longest source log, in lines
MaxLogLen == 2
\* number of clock ticks
MaxTicks == 1
\* number of convert_conversation calls in one behaviour
MaxConv == 2
\* number of files that vanish while the consolidator runs
MaxVanish == 1

-----------------------------------------------------------------------------
(* Python string primitives *)

Min(a, b) == IF a < b THEN a ELSE b
\* s[i-1] of Python, 1-based here
Char(s, i) == SubSeq(s, i, i)
\* s[:n]
Take(s, n) == SubSeq(s, 1, Min(n, Len(s)))
\* s[n:]
Drop(s, n) == SubSeq(s, n + 1, Len(s))
\* s.startswith(p)
StartsWith(s, p) == Len(s) >= Len(p) /\ SubSeq(s, 1, Len(p)) = p

\* index of the first occurrence of the character c in s at or after i, 0 if none
Find(s, c, i) ==
    LET hits == {j \in i..Len(s) : Char(s, j) = c}
    IN  IF hits = {} THEN 0 ELSE CHOOSE j \in hits : \A k \in hits : j <= k

\* c in s, for a single character c
Contains(s, c) == Find(s, c, 1) # 0

IsSpace(c) == c \in {" ", "\t", "\n"}

RECURSIVE LStrip(_)
LStrip(s) == IF s # "" /\ IsSpace(Char(s, 1)) THEN LStrip(Drop(s, 1)) ELSE s

RECURSIVE RStrip(_)
RStrip(s) ==
    IF s # "" /\ IsSpace(Char(s, Len(s))) THEN RStrip(Take(s, Len(s) - 1)) ELSE s

\* s.strip()
Strip(s) == LStrip(RStrip(s))

\* s.replace(a, b) for a single character a
Replace(s, a, b) ==
    LET R[i \in 0..Len(s)] ==
            IF i = 0 THEN ""
            ELSE R[i - 1] \o (IF Char(s, i) = a THEN b ELSE Char(s, i))
    IN  R[Len(s)]

DecDigits == "0123456789"
HexDigits == "0123456789abcdef"

IsDigit(c) == Len(c) = 1 /\ Contains(DecDigits, c)
DigitVal(c) == Find(DecDigits, c, 1) - 1

AllDigits(s) == \A j \in 1..Len(s) : IsDigit(Char(s, j))

\* value of a non-empty string of decimal digits
RECURSIVE DecVal(_)
DecVal(s) ==
    IF s = "" THEN 0
    ELSE 10 * DecVal(Take(s, Len(s) - 1)) + DigitVal(Char(s, Len(s)))

\* str(n) of a natural number
RECURSIVE NatStr(_)
NatStr(n) ==
    IF n < 10 THEN Char(DecDigits, n + 1)
    ELSE NatStr(n \div 10) \o Char(DecDigits, (n % 10) + 1)

\* str(n) of an integer
IntStr(n) == IF n < 0 THEN "-" \o NatStr(0 - n) ELSE NatStr(n)

\* n rendered with at least two digits (strftime's %d, %H, %M, %S)
Pad2(n) == IF n < 10 THEN "0" \o NatStr(n) ELSE NatStr(n)

\* the optional field of a JSON object: dict.get(key, default)
Get(field, default) == IF field.has THEN field.val ELSE default
Some(v) == [has |-> TRUE, val |-> v]
None == [has |-> FALSE, val |-> ""]

-----------------------------------------------------------------------------
(* Source logs *)

\* One line of a source log.  json is FALSE for a line json.loads rejects; the
\* other fields are those of the parsed object (absent keys have has = FALSE).
\* message.kind: "none" (no message key), "str" (a plain string), "dict" (an
\* object with a string under 'content'), "parts" (an object with a list
\* under 'content', of one part of type text), "tool_result" (the same with
\* one part of type tool_result, text being the part's content).  err: the raw line contains the
\* text 'error' or 'failed'.
Entry(type, ts, sid, msg, err) ==
    [json |-> TRUE, type |-> type, timestamp |-> ts, sessionId |-> sid,
     message |-> msg, err |-> err]

NoMessage == [kind |-> "none", text |-> ""]
StrMessage(t) == [kind |-> "str", text |-> t]
DictMessage(t) == [kind |-> "dict", text |-> t]
PartsMessage(t) == [kind |-> "parts", text |-> t]
ToolResultMessage(t) == [kind |-> "tool_result", text |-> t]

\* content of one tool_use part, of the tool name; input tells what the part
\* has under 'input': nothing ("missing"), null, the string t ("str"), the
\* list [t] ("list") or the mapping {'command': t} ("dict")
ToolUseMessage(name, input, t) == [kind |-> "tool_use", text |-> t, name |-> name, input |-> input]

\* content of one part that is a number
OddPartMessage == [kind |-> "odd_part", text |-> ""]

Malformed ==
    [json |-> FALSE, type |-> "unknown", timestamp |-> None, sessionId |-> None,
     message |-> NoMessage, err |-> FALSE]

\* A source log file: the name of its parent directory and its own name.
SourceFile(parent, name) == [parent |-> parent, name |-> name]

\* all sequences over S of length 1..n
SeqsUpTo(S, n) == UNION {[1..k -> S] : k \in 1..n}

-----------------------------------------------------------------------------
(* Session identity (convert_conversation, lines 241-268) *)

\* lines[:10], the window searched for the first user message
ScanLines == 10
\* [:100], the length of the first-message snippet
SnippetLen == 100
\* hexdigest()[:12]
DigestLen == 12

\* the characters of the model's texts; a character's code is its place here
CharTable ==
    " !#$%&'()*+,-./0123456789:;<=>?@ABCDEFGHIJKLMNOPQRSTUVWXYZ[]^_abcdefghijklmnopqrstuvwxyz{|}~"

CharCodes ==
    [c \in {Char(CharTable, i) : i \in 1..Len(CharTable)} |-> Find(CharTable, c, 1)]

\* ord(c)
Ord(c) == IF c \in DOMAIN CharCodes THEN CharCodes[c] ELSE 0

\* the sum of f[i] over the domain of f, every f[i] positive
Sum(f) == BagCardinality(f)

\* n as w lower-case hex digits
RECURSIVE HexStr(_, _)
HexStr(n, w) ==
    IF w = 0 THEN ""
    ELSE HexStr(n \div 16, w - 1) \o Char(HexDigits, (n % 16) + 1)

\* The digest is modelled by a hash of the characters and their places, 20
\* bits wide: equal texts have equal digests, and the different texts of the
\* model have different ones.
TextHash(s) ==
    IF s = "" THEN 7
    ELSE (Len(s) * 8191
          + Sum([i \in 1..Len(s) |-> (Ord(Char(s, i)) + 1) * (((i * 7919) % 1021) + 1)]))
         % 1048576

\* hashlib.md5(s.encode()).hexdigest()[:12]
md5_hexdigest(s) == HexStr(TextHash(s), DigestLen)

\* str(entry.get('message', ''))
PyStr(msg) ==
    CASE msg.kind = "none" -> ""
      [] msg.kind = "str" -> msg.text
      [] msg.kind = "parts" ->
            "{'content': [{'type': 'text', 'text': '" \o msg.text \o "'}]}"
      [] msg.kind = "tool_result" ->
            "{'content': [{'type': 'tool_result', 'content': '" \o msg.text \o "'}]}"
      [] msg.kind = "tool_use" ->
            "{'content': [{'type': 'tool_use', 'name': '" \o msg.name \o "'"
                \o (CASE msg.input = "missing" -> ""
                       [] msg.input = "null" -> ", 'input': None"
                       [] msg.input = "str" -> ", 'input': '" \o msg.text \o "'"
                       [] msg.input = "list" -> ", 'input': ['" \o msg.text \o "']"
                       [] OTHER -> ", 'input': {'command': '" \o msg.text \o "'}")
                \o "}]}"
      [] msg.kind = "odd_part" -> "{'content': [5]}"
      [] OTHER -> "{'content': '" \o msg.text \o "'}"

\* the loop of lines 257-264: the snippet of the first entry of type user
\* among the first ScanLines lines; a line that does not parse is passed over
first_msg(lines, i) ==
    LET users == {j \in i..Min(ScanLines, Len(lines)) :
                     lines[j].json /\ lines[j].type = "user"}
    IN  IF users = {} THEN ""
        ELSE LET j == CHOOSE j \in users : \A k \in users : j <= k
             IN  Take(PyStr(lines[j].message), SnippetLen)

\* The model's letter for a lone surrogate (a code point U+D800..U+DFFF), which
\* json.loads yields from an escape such as \ud83d standing alone.
LoneSurrogate == "\\"

\* s.encode('utf-8') succeeds: a lone surrogate has no UTF-8 form
Encodable(s) == \A i \in 1..Len(s) : Char(s, i) # LoneSurrogate

\* line 268: the text digested for a synthesized key cannot be encoded
KeyRaises(jsonl_file, lines) ==
    /\ lines[1].sessionId = None
    /\ ~Encodable(jsonl_file.parent \o ":" \o first_msg(lines, 1))

\* lines 248-249: json.loads of the first and of the last line succeeds
EntriesParse(lines) == lines # <<>> /\ lines[1].json /\ lines[Len(lines)].json

\* The key a v2-style resolver would give: a digest of the log's own path.
SessionKeyOfPath(jsonl_file, lines, dev, now) ==
    LET session_id == Get(lines[1].sessionId, "unknown")
    IN  IF session_id = "unknown"
        THEN "unknown_" \o md5_hexdigest(jsonl_file.parent \o "/" \o jsonl_file.name)
        ELSE session_id

\* A resolver that cuts the explicit identifier to its first 8 characters.
SessionKeyCut(jsonl_file, lines, dev, now) ==
    LET session_id == Get(lines[1].sessionId, "unknown")
    IN  IF session_id = "unknown"
        THEN "unknown_" \o md5_hexdigest(jsonl_file.parent \o ":" \o first_msg(lines, 1))
        ELSE Take(session_id, 8)

\* lines 251-268: the session key of a log whose first line parses.  The
\* device and the time of the run are at hand but are not read.
SessionKey(jsonl_file, lines, dev, now) ==
    LET session_id == Get(lines[1].sessionId, "unknown")
    IN  IF session_id = "unknown"
        THEN "unknown_" \o md5_hexdigest(jsonl_file.parent \o ":" \o first_msg(lines, 1))
        ELSE session_id

-----------------------------------------------------------------------------
(* Timestamps (format_timestamp) *)

\* The calendar of the model: a date is counted in seconds from
\* 2024-01-01T00:00:00, every month taken as 31 days long; the timestamps and
\* the clock of the model lie in January 2024.
DaySeconds == 24 * 3600

IsoDigitsAt(s, a, b) == Len(s) >= b /\ AllDigits(SubSeq(s, a, b))

\* datetime.fromisoformat accepts s: YYYY-MM-DDTHH:MM:SS, then nothing or an
\* offset +HH:MM or -HH:MM
IsoShape(s) ==
    /\ Len(s) \in {19, 25}
    /\ IsoDigitsAt(s, 1, 4) /\ Char(s, 5) = "-"
    /\ IsoDigitsAt(s, 6, 7) /\ Char(s, 8) = "-"
    /\ IsoDigitsAt(s, 9, 10) /\ Char(s, 11) \in {"T", " "}
    /\ IsoDigitsAt(s, 12, 13) /\ Char(s, 14) = ":"
    /\ IsoDigitsAt(s, 15, 16) /\ Char(s, 17) = ":"
    /\ IsoDigitsAt(s, 18, 19)
    /\ DecVal(SubSeq(s, 6, 7)) \in 1..12
    /\ DecVal(SubSeq(s, 9, 10)) \in 1..31
    /\ DecVal(SubSeq(s, 12, 13)) < 24
    /\ DecVal(SubSeq(s, 15, 16)) < 60
    /\ DecVal(SubSeq(s, 18, 19)) < 60
    /\ Len(s) = 25 =>
        /\ Char(s, 20) \in {"+", "-"}
        /\ IsoDigitsAt(s, 21, 22) /\ Char(s, 23) = ":" /\ IsoDigitsAt(s, 24, 25)
        /\ DecVal(SubSeq(s, 21, 22)) < 24
        /\ DecVal(SubSeq(s, 24, 25)) < 60

\* the fields of datetime.fromisoformat(s) with the zone dropped
\* (dt.replace(tzinfo=None) keeps the written fields)
NaiveFields(s) ==
    [year |-> DecVal(SubSeq(s, 1, 4)), month |-> DecVal(SubSeq(s, 6, 7)),
     day |-> DecVal(SubSeq(s, 9, 10)), hour |-> DecVal(SubSeq(s, 12, 13)),
     minute |-> DecVal(SubSeq(s, 15, 16)), second |-> DecVal(SubSeq(s, 18, 19))]

\* the fields of the clock value t
ClockFields(t) ==
    [year |-> 2024, month |-> 1, day |-> (t \div DaySeconds) + 1,
     hour |-> (t % DaySeconds) \div 3600, minute |-> (t % 3600) \div 60,
     second |-> t % 60]

\* a datetime as seconds of the model's calendar
FieldSeconds(d) ==
    ((d.year - 2024) * 372 + (d.month - 1) * 31 + (d.day - 1)) * DaySeconds
    + d.hour * 3600 + d.minute * 60 + d.second

\* dt.strftime('%H:%M:%S'), dt.strftime('%Y-%m-%d'), dt
Rendered(d) ==
    [time_str |-> Pad2(d.hour) \o ":" \o Pad2(d.minute) \o ":" \o Pad2(d.second),
     date_str |-> NatStr(d.year) \o "-" \o Pad2(d.month) \o "-" \o Pad2(d.day),
     dt |-> FieldSeconds(d)]

\* format_timestamp: the three branches parse alike (a Z is read as +00:00);
\* when parsing raises, the time of the call is returned instead
format_timestamp(iso_timestamp, now) ==
    CHOOSE r \in
        {IF IsoShape(text) THEN Rendered(NaiveFields(text)) ELSE Rendered(ClockFields(now)) :
            text \in {IF Contains(iso_timestamp, "Z")
                      THEN Replace(iso_timestamp, "Z", "+00:00")
                      ELSE iso_timestamp}} : TRUE

-----------------------------------------------------------------------------
(* Content, titles, paths *)

\* t in s
HasSubstr(s, t) == \E i \in 1..(Len(s) - Len(t) + 1) : SubSeq(s, i, i + Len(t) - 1) = t

\* the longest tool result rendered whole
ResultLimit == 1000

\* the three backquotes of a code fence, which a string of the model cannot
\* hold, are written as three quotes
Fence == "'''"
ResultHeading == "\n**[Result]**"
TruncationMarker == "...\n[truncated]"
ToolHeading(tool_name) == "\n**[Tool: " \o tool_name \o "]**"

\* A renderer that cuts a result of ResultLimit characters as well.
tool_result_block_CutAtLimit(result_content) ==
    LET shown == IF Len(result_content) >= ResultLimit
                 THEN Take(result_content, ResultLimit) \o TruncationMarker
                 ELSE result_content
    IN  Fence \o "\n" \o shown \o "\n" \o Fence

\* lines 128-131: the body of a tool result, a string, cut and fenced
tool_result_block(result_content) ==
    LET shown == IF Len(result_content) > ResultLimit
                 THEN Take(result_content, ResultLimit) \o TruncationMarker
                 ELSE result_content
    IN  Fence \o "\n" \o shown \o "\n" \o Fence

\* extract_content for the payloads of the model; raises is TRUE where the
\* code raises (indexing a plain string that holds the text 'content')
extract_content(message) ==
    CASE message.kind = "none" -> [raises |-> FALSE, text |-> ""]
      [] message.kind = "str" ->
            [raises |-> HasSubstr(message.text, "content"), text |-> ""]
      [] message.kind = "tool_result" ->
            [raises |-> FALSE,
             text |-> ResultHeading \o "\n" \o tool_result_block(message.text)]
      [] message.kind = "tool_use" ->
            \* lines 98-116: tool_input is {} when the part has no input; the
            \* tests and the loop over items() are made on whatever it is
            IF message.input = "missing"
            THEN [raises |-> FALSE, text |-> ToolHeading(message.name)]
            ELSE IF message.input = "dict"
            THEN [raises |-> FALSE,
                  text |-> ToolHeading(message.name) \o "\n"
                             \o (IF message.name = "Bash"
                                 THEN Fence \o "bash\n" \o message.text \o "\n" \o Fence
                                 ELSE "command: " \o message.text)]
            ELSE [raises |-> TRUE, text |-> ""]
      [] message.kind = "odd_part" -> [raises |-> FALSE, text |-> ""]
      [] OTHER -> [raises |-> FALSE, text |-> message.text]

\* clean_filename: the characters no file name may hold are removed, runs of
\* white space become one blank, and a text longer than max_length is cut at
\* the last blank before it
clean_filename(text, max_length) ==
    LET keep(i) == /\ Char(text, i) \notin {"<", ">", ":", "/", "|", "?", "*"}
                   /\ ~(IsSpace(Char(text, i)) /\ i > 1 /\ IsSpace(Char(text, i - 1)))
        R[i \in 0..Len(text)] ==
            IF i = 0 THEN ""
            ELSE R[i - 1] \o (IF keep(i) THEN (IF IsSpace(Char(text, i)) THEN " " ELSE Char(text, i))
                              ELSE "")
        cleaned == Strip(R[Len(text)])
        head == Take(cleaned, max_length)
        blanks == {j \in 1..Len(head) : Char(head, j) = " "}
    IN  IF Len(cleaned) > max_length
        THEN (IF blanks = {} THEN head
              ELSE Take(head, (CHOOSE j \in blanks : \A k \in blanks : j >= k) - 1)) \o "..."
        ELSE cleaned

\* decode_project_path
decode_project_path(encoded_path) ==
    IF ~StartsWith(encoded_path, "-") THEN encoded_path
    ELSE LET decoded == Replace(Drop(encoded_path, 1), "-", "/")
         IN  IF StartsWith(decoded, "mnt/c/") THEN "C:/" \o Drop(decoded, 6)
             ELSE IF StartsWith(decoded, "home/") THEN "/" \o decoded
             ELSE decoded

\* A path scheme without the shard of the synthesized keys.
get_session_file_path_TwoChars(session_id, device_name, output_base_dir) ==
    output_base_dir \o <<"Devices", device_name, Take(session_id, 2), session_id \o ".md">>

\* get_session_file_path
get_session_file_path(session_id, device_name, output_base_dir) ==
    LET folder == IF StartsWith(session_id, "unknown_") THEN "unknown"
                  ELSE Take(session_id, 2)
    IN  output_base_dir \o <<"Devices", device_name, folder, session_id \o ".md">>

-----------------------------------------------------------------------------
(* The artifact and its front matter *)

\* the places of the lines that are the delimiter once stripped
Delimiters(file) == {i \in 1..Len(file) : Strip(file[i]) = "---"}

\* the lines between the first delimiter and the next one (or the end) that
\* hold a colon
FrontMatterLines(file) ==
    CHOOSE r \in
        {IF ds = {} THEN {}
         ELSE LET a == CHOOSE i \in ds : \A k \in ds : i <= k
                  rest == ds \ {a}
                  b == IF rest = {} THEN Len(file) + 1
                       ELSE CHOOSE i \in rest : \A k \in rest : i <= k
              IN  {i \in (a + 1)..(b - 1) : Contains(file[i], ":")} :
            ds \in {Delimiters(file)}} : TRUE

\* key, value = line.split(':', 1), both stripped
LineKey(line) == Strip(Take(line, Find(line, ":", 1) - 1))
LineValue(line) == Strip(Drop(line, Find(line, ":", 1)))

\* the pairs of the front matter, each with the place of its line
FrontMatterPairs(file) ==
    {<<i, LineKey(file[i]), LineValue(file[i])>> : i \in FrontMatterLines(file)}

\* read_existing_metadata of a file that exists: a later line of a key
\* replaces an earlier one
read_existing_metadata(file) ==
    CHOOSE r \in
        {[k \in {p[2] : p \in pairs} |->
            (CHOOSE p \in pairs : p[2] = k /\ \A q \in pairs : q[2] = k => q[1] <= p[1])[3]] :
            pairs \in {FrontMatterPairs(file)}} : TRUE

-----------------------------------------------------------------------------
(* convert_conversation *)

\* duration_minutes < 5 is "active"
ActiveMinutes == 5
\* content[:100], the text a title is made of
TitleSource == 100
\* clean_filename(first_message, 50)
TitleLen == 50

\* int(x / 60): the quotient cut towards zero
IntDiv(a, b) == IF a >= 0 THEN a \div b ELSE 0 - ((0 - a) \div b)

\* the output tree is the root the paths are relative to
OutputBaseDir == <<>>

\* entry.get('message') is truthy
Truthy(message) ==
    message.kind \in {"dict", "parts", "tool_result", "tool_use", "odd_part"}
        \/ (message.kind = "str" /\ message.text # "")

\* lines 299-313: the title, from the first user entry with content
conversation_title(lines, session_id) ==
    LET good == {j \in 1..Len(lines) :
                    /\ lines[j].json /\ lines[j].type = "user" /\ Truthy(lines[j].message)
                    /\ ~extract_content(lines[j].message).raises
                    /\ extract_content(lines[j].message).text # ""}
    IN  IF good = {} THEN "Session " \o Take(session_id, 8)
        ELSE LET j == CHOOSE j \in good : \A k \in good : j <= k
             IN  clean_filename(Take(extract_content(lines[j].message).text, TitleSource),
                                TitleLen)

\* lines 379-409: the transcript of one line
MessageLines(entry, now) ==
    LET t == format_timestamp(Get(entry.timestamp, ""), now)
    IN  IF ~entry.json THEN <<>>
        ELSE IF entry.type = "user"
        THEN <<"## User [" \o t.date_str \o " " \o t.time_str \o "]",
               extract_content(entry.message).text, "">>
        ELSE IF entry.type = "assistant"
        THEN <<"## Assistant [" \o t.date_str \o " " \o t.time_str \o "]",
               extract_content(entry.message).text, "">>
        ELSE <<>>

\* a line of the transcript loop raises something other than JSONDecodeError
MessageRaises(entry) ==
    entry.json /\ entry.type \in {"user", "assistant"} /\ extract_content(entry.message).raises

Transcript(lines, now) ==
    LET B[i \in 0..Len(lines)] ==
            IF i = 0 THEN <<>> ELSE B[i - 1] \o MessageLines(lines[i], now)
    IN  B[Len(lines)]

\* A reconciler that takes first_seen from the log whenever the log has a
\* first timestamp.
first_seen_Fresh(existing, exists, first_timestamp) ==
    IF first_timestamp # "" \/ ~exists THEN first_timestamp
    ELSE existing["first_seen"]

\* lines 339-343: first_seen is kept from the existing file
first_seen_of(existing, exists, first_timestamp) ==
    IF exists /\ DOMAIN existing # {} /\ "first_seen" \in DOMAIN existing
    THEN existing["first_seen"]
    ELSE first_timestamp

\* claude-to-markdown.py, lines 234-239: the later test overrides the earlier
status_v1(has_errors, duration_minutes) ==
    LET s0 == "completed"
        s1 == IF has_errors THEN "completed_with_errors" ELSE s0
    IN  IF duration_minutes = 0 THEN "in_progress" ELSE s1

\* claude-to-markdown-v2.py, lines 302-307
status_v2(has_errors, duration_minutes) ==
    LET s0 == "completed"
        s1 == IF has_errors THEN "completed_with_errors" ELSE s0
    IN  IF duration_minutes = 0 THEN "in_progress" ELSE s1

\* claude-to-markdown-v3.py, lines 334-337
status_v3(has_errors, duration_minutes) ==
    LET s0 == IF duration_minutes < ActiveMinutes THEN "active" ELSE "completed"
    IN  IF has_errors THEN "completed_with_errors" ELSE s0

\* lines 345-414: the file written, from the facts gathered.  The lines
\* platform, user, project_name, tools_used, tags and model of the front
\* matter and the Device and Project lines of the header are functions of the
\* log and of the machine alone and are left out.
md_content(jsonl_file, lines, dev, session_id, first, lst, title, first_seen, body) ==
    LET duration_minutes == IntDiv(lst.dt - first.dt, 60)
        has_errors == \E i \in 1..Len(lines) : lines[i].err
        status == status_v3(has_errors, duration_minutes)
    IN  << "---",
           "# Obsidian Bases Properties",
           "device: " \o dev,
           "first_seen: " \o first_seen,
           "last_updated: " \o Get(lines[Len(lines)].timestamp, ""),
           "date: " \o first.date_str,
           "session_id: " \o session_id,
           "project_path: " \o decode_project_path(jsonl_file.parent),
           "conversation_title: " \o title,
           "message_count: " \o NatStr(Len(lines)),
           "duration_minutes: " \o IntStr(duration_minutes),
           "status: " \o status,
           "has_errors: " \o (IF has_errors THEN "true" ELSE "false"),
           "---",
           "",
           "# " \o title,
           "",
           "**Session:** " \o session_id,
           "**Started:** " \o first.date_str \o " " \o first.time_str
               \o " | **Updated:** " \o lst.date_str \o " " \o lst.time_str,
           "**Duration:** " \o IntStr(duration_minutes) \o " minutes | **Messages:** "
               \o NatStr(Len(lines)),
           "",
           "---",
           "" >> \o body

\* lines 270-417, the key known: the existing file is read, the new one is
\* rendered
reconcile(jsonl_file, lines, t, dev, now, session_id) ==
    CHOOSE r \in
        {[result |-> IF output_file \in DOMAIN t THEN "Updated" ELSE "Created",
          session_id |-> session_id,
          output_file |-> output_file,
          content |->
            md_content(jsonl_file, lines, dev, session_id, first, lst, title,
                       first_seen_of(IF output_file \in DOMAIN t
                                     THEN read_existing_metadata(t[output_file])
                                     ELSE <<>>,
                                     output_file \in DOMAIN t,
                                     Get(lines[1].timestamp, "")),
                       body)] :
            output_file \in {get_session_file_path(session_id, dev, OutputBaseDir)},
            first \in {format_timestamp(Get(lines[1].timestamp, ""), now)},
            lst \in {format_timestamp(Get(lines[Len(lines)].timestamp, ""), now)},
            title \in {conversation_title(lines, session_id)},
            body \in {Transcript(lines, now)}} : TRUE

\* A writer that removes the output file when the write raises.
write_file_Unlink(t, r) ==
    IF \A i \in 1..Len(r.content) : Encodable(r.content[i])
    THEN [result |-> r.result, session_id |-> r.session_id, output_file |-> r.output_file,
          content |-> r.content, tree |-> (r.output_file :> r.content) @@ t]
    ELSE [result |-> "Error", session_id |-> "", output_file |-> r.output_file,
          content |-> <<>>, tree |-> [p \in DOMAIN t \ {r.output_file} |-> t[p]]]

\* lines 411-414 and 419-423: open(output_file, 'w') empties the file or
\* creates it empty, then f.write encodes the whole text; where that raises
\* nothing has been written and the file stays empty
write_file(t, r) ==
    IF \A i \in 1..Len(r.content) : Encodable(r.content[i])
    THEN [result |-> r.result, session_id |-> r.session_id, output_file |-> r.output_file,
          content |-> r.content, tree |-> (r.output_file :> r.content) @@ t]
    ELSE [result |-> "Error", session_id |-> "", output_file |-> r.output_file,
          content |-> <<>>, tree |-> (r.output_file :> <<>>) @@ t]

\* convert_conversation(jsonl_file, output_base_dir, config) on the log lines
\* (stripped, the empty ones left out), with the output tree t, on the machine
\* dev, at the time now.  result is "None" (empty log), "Error" (an exception
\* reached line 419), "Created" or "Updated"; content is the file written and
\* tree the output tree the call leaves (output_file is <<>> where the code
\* did not reach line 413).
convert_conversation(jsonl_file, lines, t, dev, now) ==
    IF lines = <<>> THEN
        [result |-> "None", session_id |-> "", output_file |-> <<>>, content |-> <<>>,
         tree |-> t]
    ELSE IF ~EntriesParse(lines) \/ KeyRaises(jsonl_file, lines)
            \/ \E i \in 1..Len(lines) : MessageRaises(lines[i]) THEN
        [result |-> "Error", session_id |-> "", output_file |-> <<>>, content |-> <<>>,
         tree |-> t]
    ELSE
        CHOOSE w \in
            {write_file(t, r) :
                r \in {reconcile(jsonl_file, lines, t, dev, now, session_id) :
                          session_id \in {SessionKey(jsonl_file, lines, dev, now)}}} : TRUE

-----------------------------------------------------------------------------
(* The converter run again and again over an output tree *)

DeviceNames == {"PC", "LAPTOP"}

\* seconds between two readings of the clock
TickSeconds == 90
ClockStart == 20 * DaySeconds

T1 == "2024-01-15T10:30:00Z"
T2 == "2024-01-15T10:37:00Z"

CFiles == {SourceFile("-home-p", "a.jsonl"), SourceFile("-home-q", "b.jsonl")}

CSids == {None, Some("ab12cd34ef")}

\* the lines of the logs converted: user entries with a timestamp or with
\* none, a later assistant entry
CLines(sid) ==
    {Entry("user", Some(T1), sid, DictMessage("hi"), FALSE),
     Entry("user", None, sid, DictMessage("hi"), FALSE),
     Entry("assistant", Some(T2), sid, DictMessage("ok"), FALSE)}

CLogs == UNION {SeqsUpTo(CLines(sid), MaxLogLen) : sid \in CSids}

NoCall == [file |-> SourceFile("", ""), lines |-> <<>>, result |-> "",
           session_id |-> "", output_file |-> <<>>, now |-> 0]

\* no resolution yet
NoRes == [ok |-> FALSE, file |-> SourceFile("", ""), lines |-> <<>>,
          env |-> [now |-> 0, dev |-> ""], key |-> ""]

ResolveIdle == res = NoRes /\ resPrev = NoRes

\* the v2 batch not run
V2Idle ==
    source = <<>> /\ converted_sessions = {} /\ converted = 0 /\ skipped = 0 /\ run = 0

\* the batch counters not in use
BatchIdle ==
    /\ jsonl_files = {} /\ created = 0 /\ updated = 0 /\ failed = 0 /\ nfiles = 0
    /\ summary = FALSE
    /\ V2Idle

NoArg == [fn |-> ""]

\* no function applied alone
FnIdle == arg = NoArg /\ out = NoArg

\* the consolidator not run
MigIdle ==
    /\ dirs = {} /\ pc = "idle" /\ sessions = <<>> /\ gi = 0 /\ log = <<>>
    /\ files_migrated = 0 /\ duplicates_removed = 0 /\ orig = <<>> /\ nvanish = 0
    /\ raised = ""

Init ==
    /\ clock = ClockStart
    /\ device \in DeviceNames
    /\ tree = <<>>
    /\ last = NoCall
    /\ nconv = 0
    /\ ResolveIdle
    /\ MigIdle
    /\ BatchIdle
    /\ FnIdle

\* time passes
Tick ==
    /\ clock < ClockStart + MaxTicks * TickSeconds
    /\ clock' = clock + TickSeconds
    /\ UNCHANGED <<device, tree, last, nconv, resVars, migVars, batchVars, fnVars>>

\* one call of convert_conversation by the driver (main, line 470)
Convert(f, lines) ==
    /\ nconv < MaxConv
    /\ \E r \in {convert_conversation(f, lines, tree, device, clock)} :
           /\ tree' = r.tree
           /\ last' = [file |-> f, lines |-> lines, result |-> r.result,
                       session_id |-> r.session_id, output_file |-> r.output_file,
                       now |-> clock]
    /\ nconv' = nconv + 1
    /\ UNCHANGED <<clock, device, resVars, migVars, batchVars, fnVars>>

Next ==
    \/ Tick
    \/ \E f \in CFiles, lines \in CLogs : Convert(f, lines)

Spec == Init /\ [][Next]_vars

-----------------------------------------------------------------------------
(* The duplicate consolidator (migrate-duplicates.py) *)

\* The vault is the root of the paths of tree and dirs; vault_dir gives the
\* parts of its own path.
vault_dir ==
    <<"C:", "Users", "josh", "Documents", "Mine",
      "Claude Code Conversation Backups (Automated)">>
old_devices_dir == <<"Devices">>
backup_dir == <<"OLD_STRUCTURE_BACKUP">>

\* filepath.parts[-k] of a path of the vault
PartFromEnd(f, k) == (vault_dir \o f)[Len(vault_dir) + Len(f) + 1 - k]

\* the directories above a path
Parents(f) == {SubSeq(f, 1, k) : k \in 1..(Len(f) - 1)}

IsUnder(f, d) == Len(f) > Len(d) /\ SubSeq(f, 1, Len(d)) = d

EndsWith(s, e) == Len(s) >= Len(e) /\ SubSeq(s, Len(s) - Len(e) + 1, Len(s)) = e

\* extract_session_id: the value of the first line that starts with the key
extract_session_id(file) ==
    LET hits == {i \in 1..Len(file) : StartsWith(file[i], "session_id:")}
    IN  IF hits = {} THEN None
        ELSE Some(LineValue(file[CHOOSE i \in hits : \A k \in hits : i <= k]))

\* int(text): an optional sign and decimal digits, white space around them
int_raises(text) ==
    LET t == Strip(text)
        digits == IF t # "" /\ Char(t, 1) \in {"+", "-"} THEN Drop(t, 1) ELSE t
    IN  digits = "" \/ ~AllDigits(digits)

int(text) ==
    LET t == Strip(text)
    IN  IF t # "" /\ Char(t, 1) = "-" THEN 0 - DecVal(Drop(t, 1))
        ELSE IF t # "" /\ Char(t, 1) = "+" THEN DecVal(Drop(t, 1))
        ELSE DecVal(t)

MetadataKeys == {"message_count", "timestamp", "first_seen", "last_updated"}

\* extract_metadata: the front matter is read by the loop that
\* read_existing_metadata has, the four keys are kept, message_count is made
\* an integer (0 when int raises)
extract_metadata(file) ==
    CHOOSE r \in
        {[k \in {p[2] : p \in pairs} |->
            LET value == (CHOOSE p \in pairs :
                            p[2] = k /\ \A q \in pairs : q[2] = k => q[1] <= p[1])[3]
            IN  IF k # "message_count" THEN value
                ELSE IF int_raises(value) THEN 0 ELSE int(value)] :
            pairs \in {{p \in FrontMatterPairs(file) : p[2] \in MetadataKeys}}} : TRUE

\* metadata.get('message_count', 0)
msg_count_of(file) ==
    CHOOSE r \in
        {IF "message_count" \in DOMAIN metadata THEN metadata["message_count"] ELSE 0 :
            metadata \in {extract_metadata(file)}} : TRUE

\* get_new_path
get_new_path(session_id, device_name, base_dir) ==
    LET folder == IF StartsWith(session_id, "unknown") THEN "unknown"
                  ELSE Take(session_id, 2)
    IN  base_dir \o <<"Devices", device_name, folder, session_id \o ".md">>

NoFile == <<>>

\* A selection that lets a later file of an equal count win.
best_of_LastWins(files, t) ==
    LET scan[i \in 0..Len(files)] ==
            IF i = 0 THEN [best_file |-> NoFile, best_count |-> 0]
            ELSE IF msg_count_of(t[files[i]]) >= scan[i - 1].best_count
                 THEN [best_file |-> files[i], best_count |-> msg_count_of(t[files[i]])]
                 ELSE scan[i - 1]
    IN  scan[Len(files)]

\* lines 92-100: the selection loop over the files of a group
best_of(files, t) ==
    LET scan[i \in 0..Len(files)] ==
            IF i = 0 THEN [best_file |-> NoFile, best_count |-> 0]
            ELSE IF msg_count_of(t[files[i]]) > scan[i - 1].best_count
                 THEN [best_file |-> files[i], best_count |-> msg_count_of(t[files[i]])]
                 ELSE scan[i - 1]
    IN  scan[Len(files)]

\* backup_dir / f.relative_to(old_devices_dir)
backup_path_of(f) == backup_dir \o SubSeq(f, Len(old_devices_dir) + 1, Len(f))

\* shutil.copy2(src, dst) on the tree t: dst gets the content of src
copy2(t, src, dst) == (dst :> t[src]) @@ t

\* the loop of lines 118-124 (one round of it at lines 139-141): every file of
\* the group is moved to its backup path, a file there being replaced
move_all(t, files) ==
    LET moved == {files[i] : i \in 1..Len(files)}
        kept == DOMAIN t \ moved
        dests == {backup_path_of(f) : f \in moved}
    IN  [p \in kept \cup dests |->
            IF p \in dests THEN t[CHOOSE f \in moved : backup_path_of(f) = p]
            ELSE t[p]]

\* the outcome of one round of the loop of line 89 on the group g, the tree t
\* and the directories d.  raised names the exception that left main.
Outcome(exc, t, d, best_file, new_path, migrated, removed) ==
    [raised |-> exc, tree |-> t, dirs |-> d, best_file |-> best_file,
     new_path |-> new_path, migrated |-> migrated, removed |-> removed]

\* lines 108-124 and 131-143: the copy to the new path and the moves to the
\* backup
migrate_group(g, t, d, best_file) ==
    LET device_name == PartFromEnd(best_file, 5)
        new_path == get_new_path(g.session_id, device_name, <<>>)
        d1 == d \cup Parents(new_path)
        t1 == copy2(t, best_file, new_path)
        d2 == d1 \cup UNION {Parents(backup_path_of(g.files[i])) : i \in 1..Len(g.files)}
    IN  IF best_file \notin DOMAIN t \/ best_file = new_path
        THEN \* FileNotFoundError or SameFileError of copy2
             Outcome(IF best_file \notin DOMAIN t THEN "FileNotFoundError"
                     ELSE "SameFileError",
                     t, d1, best_file, new_path, 0, 0)
        ELSE Outcome("", move_all(t1, g.files), d2, best_file, new_path,
                     1, Len(g.files) - 1)

process_group(g, t, d) ==
    IF Len(g.files) > 1 THEN
        IF \E i \in 1..Len(g.files) : g.files[i] \notin DOMAIN t
        THEN \* open() in extract_metadata raises
             Outcome("FileNotFoundError", t, d, NoFile, NoFile, 0, 0)
        ELSE IF best_of(g.files, t).best_file = NoFile
        THEN \* best_file is None at line 103
             Outcome("AttributeError", t, d, NoFile, NoFile, 0, 0)
        ELSE migrate_group(g, t, d, best_of(g.files, t).best_file)
    ELSE migrate_group(g, t, d, g.files[1])

\* the orders in which rglob can yield the files of a set
Orders(S) ==
    {o \in [1..Cardinality(S) -> S] : \A i, j \in 1..Cardinality(S) : o[i] = o[j] => i = j}

\* the numbers of a set, ascending
Ascending(S) ==
    CHOOSE o \in [1..Cardinality(S) -> S] :
        \A i, j \in 1..Cardinality(S) : i < j => o[i] < o[j]

\* lines 72-78: sessions, a dict that keeps the order of insertion; a file
\* with no session id or an empty one is left out
grouped(all_files, t) ==
    LET sid(i) == Get(extract_session_id(t[all_files[i]]), "")
        firsts == {i \in 1..Len(all_files) :
                      sid(i) # "" /\ \A j \in 1..(i - 1) : sid(j) # sid(i)}
        order == Ascending(firsts)
        members(i) == Ascending({j \in 1..Len(all_files) : sid(j) = sid(i)})
    IN  [k \in 1..Len(order) |->
            [session_id |-> sid(order[k]),
             files |-> [n \in 1..Len(members(order[k])) |->
                            all_files[members(order[k])[n]]]]]

\* any(dir_path.iterdir()): x has a file of t or a directory of d in it
HasEntries(x, d, t) ==
    \/ \E f \in DOMAIN t : Len(f) = Len(x) + 1 /\ IsUnder(f, x)
    \/ \E y \in d : Len(y) = Len(x) + 1 /\ IsUnder(y, x)

\* the depth of the deepest directory
Deepest(d) == IF d = {} THEN 0 ELSE CHOOSE n \in {Len(x) : x \in d} : \A x \in d : Len(x) <= n

\* A walk from the top down: a directory is looked at before those in it.
pruned_TopDown(d, t) ==
    LET W[k \in 0..Deepest(d)] ==
            IF k = 0 THEN d
            ELSE {x \in W[k - 1] :
                     (IsUnder(x, old_devices_dir) /\ Len(x) = k)
                         => HasEntries(x, W[k - 1], t)}
    IN  W[Deepest(d)]

\* lines 146-153: os.walk from the bottom up; every directory beneath Devices
\* is looked at after all those in it, and removed if it has nothing in it
\* by then
pruned(d, t) ==
    LET W[k \in 0..Deepest(d)] ==
            IF k = 0 THEN d
            ELSE {x \in W[k - 1] :
                     (IsUnder(x, old_devices_dir) /\ Len(x) = Deepest(d) + 1 - k)
                         => HasEntries(x, W[k - 1], t)}
    IN  W[Deepest(d)]

\* The trees the consolidator is started on: date-organized artifacts of
\* the earlier converters and an artifact at a path of the v3 scheme.
MigSid == "ab12cd34ef"
MigSids == {MigSid, "unknown_07"}
CountTexts == {"0", "4", "9", "x"}

Artifact(sid, count, tag) ==
    <<"---">> \o (IF sid.has THEN <<"session_id: " \o sid.val>> ELSE <<>>)
    \o <<"message_count: " \o count, "---", "", "# " \o tag>>

LegacyA == <<"Devices", "PC", "2024", "01", "15", "a.md">>
LegacyB == <<"Devices", "PC", "2024", "01", "16", "b.md">>
CanonK == get_session_file_path(MigSid, "PC", OutputBaseDir)

LegacyContents(tag) ==
    {Artifact(Some(sid), c, tag) : sid \in MigSids, c \in CountTexts}
    \cup {Artifact(None, "4", tag)}
CanonContents == {Artifact(Some(MigSid), c, "K") : c \in CountTexts}

Absent == <<"absent">>

MigTrees ==
    {[p \in {q \in {LegacyA, LegacyB, CanonK} :
                (q = LegacyA /\ a # Absent) \/ (q = LegacyB /\ b # Absent)
                \/ (q = CanonK /\ k # Absent)} |->
        IF p = LegacyA THEN a ELSE IF p = LegacyB THEN b ELSE k] :
        a \in LegacyContents("A") \cup {Absent},
        b \in LegacyContents("B") \cup {Absent},
        k \in CanonContents \cup {Absent}}

MigInit ==
    /\ tree \in MigTrees
    /\ orig = tree
    /\ dirs \in IF DOMAIN tree = {} THEN {{}, {old_devices_dir}}
                ELSE {{old_devices_dir} \cup UNION {Parents(f) : f \in DOMAIN tree}}
    /\ pc = "start"
    /\ sessions = <<>> /\ gi = 0 /\ log = <<>>
    /\ files_migrated = 0 /\ duplicates_removed = 0 /\ nvanish = 0 /\ raised = ""
    /\ clock = ClockStart /\ device = "PC" /\ last = NoCall /\ nconv = 0
    /\ ResolveIdle
    /\ BatchIdle
    /\ FnIdle

\* lines 59-87: no Devices folder ends the run; otherwise the files are
\* listed and grouped and the backup directory is made
Scan ==
    /\ pc = "start"
    /\ IF old_devices_dir \notin dirs
       THEN /\ pc' = "done"
            /\ UNCHANGED <<dirs, sessions, gi>>
       ELSE \E all_files \in Orders({f \in DOMAIN tree :
                                        /\ IsUnder(f, old_devices_dir)
                                        /\ EndsWith(f[Len(f)], ".md")}) :
                /\ sessions' = grouped(all_files, tree)
                /\ dirs' = dirs \cup {backup_dir}
                /\ gi' = 1
                /\ pc' = "groups"
    /\ UNCHANGED <<tree, log, files_migrated, duplicates_removed, orig, nvanish, raised>>
    /\ UNCHANGED <<clock, device, last, nconv, resVars, batchVars, fnVars>>

\* lines 89-143: one round of the loop over the groups
Group ==
    /\ pc = "groups"
    /\ gi <= Len(sessions)
    /\ \E r \in {process_group(sessions[gi], tree, dirs)} :
           /\ tree' = r.tree
           /\ dirs' = r.dirs
           /\ files_migrated' = files_migrated + r.migrated
           /\ duplicates_removed' = duplicates_removed + r.removed
           /\ raised' = r.raised
           /\ IF r.raised # ""
              THEN pc' = "crashed" /\ UNCHANGED <<gi, log>>
              ELSE /\ gi' = gi + 1
                   /\ log' = Append(log, [best_file |-> r.best_file,
                                          new_path |-> r.new_path])
                   /\ pc' = pc
    /\ UNCHANGED <<sessions, orig, nvanish>>
    /\ UNCHANGED <<clock, device, last, nconv, resVars, batchVars, fnVars>>

\* lines 145-160: the empty directories are pruned, the summary is printed
Prune ==
    /\ pc = "groups"
    /\ gi > Len(sessions)
    /\ dirs' = pruned(dirs, tree)
    /\ pc' = "done"
    /\ UNCHANGED <<tree, sessions, gi, log, files_migrated, duplicates_removed, orig, nvanish,
                   raised>>
    /\ UNCHANGED <<clock, device, last, nconv, resVars, batchVars, fnVars>>

\* another process removes a file of a group not yet processed, between the
\* grouping and the copying
Vanish(f) ==
    /\ pc = "groups"
    /\ nvanish < MaxVanish
    /\ f \in DOMAIN tree
    /\ \E i \in gi..Len(sessions) : \E n \in 1..Len(sessions[i].files) :
           sessions[i].files[n] = f
    /\ tree' = [p \in DOMAIN tree \ {f} |-> tree[p]]
    /\ nvanish' = nvanish + 1
    /\ UNCHANGED <<dirs, pc, sessions, gi, log, files_migrated, duplicates_removed, orig,
                   raised>>
    /\ UNCHANGED <<clock, device, last, nconv, resVars, batchVars, fnVars>>

MigNext ==
    \/ Scan
    \/ Group
    \/ Prune
    \/ \E f \in {LegacyA, LegacyB, CanonK} : Vanish(f)

SpecMigrate == MigInit /\ [][MigNext]_vars

-----------------------------------------------------------------------------
(* The resolver applied to bounded inputs *)

\* the environment of a run: the time and the machine
REnvs == {[now |-> 0, dev |-> "PC"], [now |-> 1, dev |-> "LAPTOP"]}

RFiles ==
    {SourceFile("-home-p", "a.jsonl"), SourceFile("-home-p", "b.jsonl"),
     SourceFile("-home-q", "a.jsonl")}

\* the sessionId field of the lines of one log: absent, the placeholder, or
\* an identifier
RSids == {None, Some("unknown"), Some("ab12cd34ef")}

RLines(sid) ==
    {Entry("user", Some("2024-01-15T10:30:00Z"), sid, DictMessage("hi"), FALSE),
     Entry("user", Some("2024-01-15T10:30:00Z"), sid, PartsMessage("hi"), FALSE),
     Entry("assistant", Some("2024-01-15T10:31:00Z"), sid, NoMessage, FALSE)}

RLogs == UNION {SeqsUpTo(RLines(sid), MaxLogLen) : sid \in RSids}

\* one resolution: ok is FALSE when line 248 or 249 raises
Resolve(f, lines, env) ==
    [ok |-> EntriesParse(lines), file |-> f, lines |-> lines, env |-> env,
     key |-> IF EntriesParse(lines) THEN SessionKey(f, lines, env.dev, env.now)
             ELSE ""]

ConvIdle ==
    /\ clock = ClockStart
    /\ device = "PC"
    /\ tree = <<>>
    /\ last = NoCall
    /\ nconv = 0

ResolveInit ==
    /\ res = NoRes
    /\ resPrev = NoRes
    /\ ConvIdle
    /\ MigIdle
    /\ BatchIdle
    /\ FnIdle

\* the first resolution of a log
ResolveFirst(f, lines, env) ==
    /\ res = NoRes
    /\ res' = Resolve(f, lines, env)
    /\ resPrev' = NoRes
    /\ UNCHANGED <<convVars, migVars, batchVars, fnVars>>

\* a later resolution: of the same lines or of others (the log grown by
\* appended lines, another log of the same writer), from the same file or
\* from another, at another time, on another machine
ResolveSecond(f, lines, env) ==
    /\ res # NoRes
    /\ resPrev = NoRes
    /\ \E sid \in RSids : {res.lines, lines} \subseteq SeqsUpTo(RLines(sid), MaxLogLen)
    /\ res' = Resolve(f, lines, env)
    /\ resPrev' = res
    /\ UNCHANGED <<convVars, migVars, batchVars, fnVars>>

ResolveNext ==
    \/ \E f \in RFiles, lines \in RLogs, env \in REnvs : ResolveFirst(f, lines, env)
    \/ \E f \in RFiles, lines \in RLogs, env \in REnvs : ResolveSecond(f, lines, env)

SpecResolve == ResolveInit /\ [][ResolveNext]_vars

\* a is b with lines appended
Extends(a, b) == Len(a) > Len(b) /\ SubSeq(a, 1, Len(b)) = b

\* the inputs the resolver's contract names: the project directory, the
\* first entry's identifier field and the first-user-message snippet
SameIdentityInputs(a, b) ==
    /\ a.file.parent = b.file.parent
    /\ a.lines[1].sessionId = b.lines[1].sessionId
    /\ first_msg(a.lines, 1) = first_msg(b.lines, 1)

\* C3: two resolutions with the same project directory, the same identifier
\* field and the same first-user-message snippet give the same key, whatever
\* the file names, the times and the machines of the two runs.
C3_Determinism ==
    (resPrev.ok /\ res.ok /\ SameIdentityInputs(resPrev, res)) => res.key = resPrev.key

C3_Witness ==
    /\ resPrev.ok /\ res.ok
    /\ SameIdentityInputs(resPrev, res)
    /\ res.file.name # resPrev.file.name
    /\ res.env.now # resPrev.env.now
    /\ res.env.dev # resPrev.env.dev
    /\ StartsWith(res.key, "unknown_")
    /\ res.key = resPrev.key

\* C4: the key of a grown log (lines appended, the others unchanged, same
\* file) is the key of the log before it grew.
C4_KeyStableUnderGrowth ==
    (resPrev.ok /\ res.ok /\ res.file = resPrev.file /\ Extends(res.lines, resPrev.lines))
        => res.key = resPrev.key

\* C10: an identifier that is present and is not "unknown" is the key,
\* unchanged; otherwise the key has the synthesized form.
C10_ExplicitIdentity ==
    res.ok =>
        LET f == res.lines[1].sessionId
        IN  IF f.has /\ f.val # "unknown"
            THEN res.key = f.val
            ELSE StartsWith(res.key, "unknown_") /\ Len(res.key) = 8 + DigestLen

C10_Witness ==
    /\ res.ok
    /\ res.lines[1].sessionId.has
    /\ res.lines[1].sessionId.val = "ab12cd34ef"
    /\ res.key = "ab12cd34ef"

\* the Content Normalizer's text of the first entry of type user among the
\* first ScanLines lines, cut to SnippetLen characters
NormalizedSnippet(lines) ==
    LET users == {j \in 1..Min(ScanLines, Len(lines)) :
                     lines[j].json /\ lines[j].type = "user"}
    IN  IF users = {} THEN ""
        ELSE Take(extract_content(lines[CHOOSE j \in users : \A k \in users : j <= k].message).text,
                  SnippetLen)

Synthesized(r) == Get(r.lines[1].sessionId, "unknown") = "unknown"

\* C11: the synthesized key is a function of the decoded project directory
\* and of the normalized snippet of the first user entry: two logs that agree
\* on both get the same key.
C11_KeyOfDecodedAndNormalized ==
    (/\ resPrev.ok /\ res.ok
     /\ Synthesized(resPrev) /\ Synthesized(res)
     /\ decode_project_path(resPrev.file.parent) = decode_project_path(res.file.parent)
     /\ NormalizedSnippet(resPrev.lines) = NormalizedSnippet(res.lines))
        => res.key = resPrev.key

-----------------------------------------------------------------------------
(* Claims about the converter run again and again *)

\* the value an artifact records under a key of its front matter
Recorded(file, key) == read_existing_metadata(file)[key]

Records(file, key) == key \in DOMAIN read_existing_metadata(file)

\* a conversion has just been made of the log that the conversion before it
\* was made of, and that one wrote an artifact
ConvertedAgain ==
    /\ nconv' = nconv + 1
    /\ last.result \in {"Created", "Updated"}
    /\ last'.file = last.file
    /\ last'.lines = last.lines

\* C1: converting an unchanged log a second time, against the artifact the
\* first conversion wrote, leaves the artifact byte-identical, for every log,
\* those whose entries have no timestamp included.
C1_Idempotence == [][ConvertedAgain => tree' = tree]_vars

\* C2: once the artifact of a session key records a first_seen value, a later
\* conversion of any log that resolves to that key writes an artifact that
\* records exactly that value.
C2_FirstSeenKept ==
    [][(nconv' = nconv + 1 /\ last'.result = "Updated"
            /\ Records(tree[last'.output_file], "first_seen"))
        => /\ Records(tree'[last'.output_file], "first_seen")
           /\ Recorded(tree'[last'.output_file], "first_seen")
                = Recorded(tree[last'.output_file], "first_seen")]_vars

\* an artifact has been updated from a log whose first timestamp is not the
\* first_seen it records
C2_Witness ==
    /\ last.result = "Updated"
    /\ Records(tree[last.output_file], "first_seen")
    /\ Recorded(tree[last.output_file], "first_seen") # Get(last.lines[1].timestamp, "")
    /\ Recorded(tree[last.output_file], "first_seen") # ""

\* the place the sharding scheme gives to a key on the machine
PlaceOf(key) ==
    <<"Devices", device,
      IF StartsWith(key, "unknown_") THEN "unknown" ELSE Take(key, 2),
      key \o ".md">>

\* C9: from an empty tree and with a fixed device label, after any conversions
\* every artifact lies at Devices/device/shard/key.md for the key it records,
\* shard being "unknown" for a synthesized key and the first two characters of
\* the key otherwise, so that no key has two artifacts, and a re-conversion
\* writes to the file that is there.
C9_OneArtifactPerKey ==
    \E recs \in {{<<p, read_existing_metadata(tree[p])>> : p \in DOMAIN tree}} :
        /\ \A r \in recs :
              /\ "session_id" \in DOMAIN r[2]
              /\ r[1] = PlaceOf(r[2]["session_id"])
        /\ \A r, q \in recs : r[2]["session_id"] = q[2]["session_id"] => r[1] = q[1]
        /\ last.result = "Updated" => Cardinality(DOMAIN tree) < nconv

\* the artifact of a synthesized key has been converted again
C9_Witness ==
    /\ last.result = "Updated"
    /\ StartsWith(last.session_id, "unknown_")
    /\ DOMAIN tree = {PlaceOf(last.session_id)}

-----------------------------------------------------------------------------
(* Claims about the consolidator *)

\* the session ids recorded by the artifacts of a tree beneath Devices
RecordedSessions(t) ==
    {Get(extract_session_id(t[p]), "") : p \in {q \in DOMAIN t : IsUnder(q, old_devices_dir)}}
        \ {""}

\* the artifacts beneath Devices that record the session id
ArtifactsOf(t, session_id) ==
    {p \in DOMAIN t : /\ IsUnder(p, old_devices_dir)
                      /\ extract_session_id(t[p]) = Some(session_id)}

\* the run has reached its end with no file taken away by others
RanUndisturbed == pc = "done" /\ nvanish = 0

\* C5: after the consolidator has run over a tree, every session id that
\* was recorded beneath Devices before the run is recorded by exactly one
\* artifact beneath Devices.
C5_OnePerSession ==
    RanUndisturbed =>
        \A session_id \in RecordedSessions(orig) :
            Cardinality(ArtifactsOf(tree, session_id)) = 1

\* C6: once a group is processed, every original artifact of it is under the
\* backup location, at its path relative to Devices, with its original
\* content.
C6_NothingLost ==
    nvanish = 0 =>
        \A i \in 1..Len(log) : \A n \in 1..Len(sessions[i].files) :
            /\ backup_path_of(sessions[i].files[n]) \in DOMAIN tree
            /\ tree[backup_path_of(sessions[i].files[n])] = orig[sessions[i].files[n]]

\* b is the first of the files with the highest message_count recorded in t
FirstOfHighest(files, t, b) ==
    \E i \in 1..Len(files) :
        /\ files[i] = b
        /\ \A j \in 1..Len(files) : msg_count_of(t[files[j]]) <= msg_count_of(t[b])
        /\ \A j \in 1..(i - 1) : msg_count_of(t[files[j]]) < msg_count_of(t[b])

\* a group of more than one artifact has just been processed
DuplicatesMerged ==
    /\ pc = "groups"
    /\ Len(log') = Len(log) + 1
    /\ Len(sessions[gi].files) > 1

\* C7: for a session key with more than one artifact, the artifact copied to
\* the new path is the one with the highest recorded message_count, the first
\* of them in the order of the group when several have it.
C7_BestRepresentative ==
    [][DuplicatesMerged =>
        LET e == log'[Len(log')]
            landed == IF e.new_path \in DOMAIN tree' THEN e.new_path
                      ELSE backup_path_of(e.new_path)
        IN  /\ FirstOfHighest(sessions[gi].files, tree, e.best_file)
            /\ tree'[landed] = tree[e.best_file]]_vars

\* a group has been merged whose first artifact has a lower count than the
\* two after it, which tie for the highest: the first of these was taken
C7_Witness ==
    /\ nvanish = 0
    /\ \E i \in 1..Len(log) :
          /\ Len(sessions[i].files) = 3
          /\ msg_count_of(orig[sessions[i].files[1]]) < msg_count_of(orig[sessions[i].files[2]])
          /\ msg_count_of(orig[sessions[i].files[2]]) = msg_count_of(orig[sessions[i].files[3]])
          /\ log[i].best_file = sessions[i].files[2]

\* C8: when copying or moving fails while one group is processed, every
\* other group is processed all the same.
C8_FaultIsolation ==
    raised \in {"FileNotFoundError", "SameFileError"} =>
        \A i \in 1..Len(sessions) : i = gi \/ i < gi

-----------------------------------------------------------------------------
(* One conversion of any log, into an empty tree *)

\* longest log of the single conversion, in lines
MaxOnceLen == 3

\* the lines: a user entry, a later assistant entry, a line that is not JSON
OLines(sid) ==
    {Entry("user", Some(T1), sid, DictMessage("hi"), FALSE),
     Entry("assistant", Some(T2), sid, DictMessage("ok"), FALSE),
     Malformed}

\* the logs, the empty one among them
OLogs == {<<>>} \cup UNION {SeqsUpTo(OLines(sid), MaxOnceLen) : sid \in CSids}

OnceInit ==
    /\ clock = ClockStart
    /\ device = "PC"
    /\ tree = <<>>
    /\ last = NoCall
    /\ nconv = 0
    /\ ResolveIdle
    /\ MigIdle
    /\ BatchIdle
    /\ FnIdle

\* the one call of convert_conversation
Once(f, lines) ==
    /\ nconv = 0
    /\ Convert(f, lines)

OnceNext == \E f \in CFiles, lines \in OLogs : Once(f, lines)

SpecOnce == OnceInit /\ [][OnceNext]_vars

-----------------------------------------------------------------------------
(* Claims about one conversion *)

Called == nconv > 0

Written == last.result \in {"Created", "Updated"}

Parseable(lines) == {i \in 1..Len(lines) : lines[i].json}

\* C12: a line that does not parse is skipped wherever it stands, the first
\* and the last place included: a log with such a line and with a line that
\* parses still gets its artifact.
C12_MalformedNeverFatal ==
    (/\ Called
     /\ Parseable(last.lines) # {}
     /\ Parseable(last.lines) # 1..Len(last.lines))
        => Written

\* C13: every log handed to the conversion gets a session key and an
\* artifact (stated for the logs whose lines all parse).
C13_EveryLogYieldsArtifact ==
    (Called /\ Parseable(last.lines) = 1..Len(last.lines))
        => (Written /\ last.session_id # "" /\ last.output_file \in DOMAIN tree)

\* C18: the recorded duration_minutes is the floor of the seconds from the
\* first entry's time to the last entry's, over 60, and 0 when that is
\* negative.
C18_DurationNonNegativeFloor ==
    Written =>
        LET first == format_timestamp(Get(last.lines[1].timestamp, ""), last.now)
            lst == format_timestamp(Get(last.lines[Len(last.lines)].timestamp, ""), last.now)
            seconds == lst.dt - first.dt
        IN  Recorded(tree[last.output_file], "duration_minutes")
                = IF seconds < 0 THEN "0" ELSE NatStr(seconds \div 60)

\* C19: the recorded message_count is the number of the lines of the log that
\* parse.
C19_MessageCountParseable ==
    Written =>
        Recorded(tree[last.output_file], "message_count")
            = NatStr(Cardinality(Parseable(last.lines)))

-----------------------------------------------------------------------------
(* A batch: main of the converter over the logs found *)
MaxFiles == 2

BFiles ==
    {SourceFile("-home-p", "a.jsonl"), SourceFile("-home-p", "b.jsonl"),
     SourceFile("-home-q", "c.jsonl")}

BSid == "ab12cd34ef"

\* the lines of the logs of a batch: a user entry, an assistant entry whose
\* text holds a lone surrogate, a line that is not JSON
BLines ==
    {Entry("user", Some(T1), Some(BSid), DictMessage("hi"), FALSE),
     Entry("assistant", Some(T2), Some(BSid), DictMessage("ok" \o LoneSurrogate), FALSE),
     Malformed}

\* two conversations with no session id that begin with the same user message
UnkeyedLogs ==
    {<<Entry("user", Some(T1), None, DictMessage("hi"), FALSE),
       Entry("assistant", Some(T2), None, DictMessage(reply), FALSE)>> : reply \in {"ok", "no"}}

BLogs == {<<>>} \cup SeqsUpTo(BLines, MaxLogLen) \cup UnkeyedLogs

\* lines 241-242 and 419-423: a log that cannot be opened or decoded
Unreadable(t) ==
    [result |-> "Error", session_id |-> "", output_file |-> <<>>, content |-> <<>>,
     tree |-> t]

BatchInit ==
    /\ clock = ClockStart /\ device = "PC" /\ tree = <<>> /\ last = NoCall /\ nconv = 0
    /\ ResolveIdle /\ MigIdle /\ FnIdle
    /\ jsonl_files \in {S \in SUBSET BFiles : S # {} /\ Cardinality(S) <= MaxFiles}
    /\ created = 0 /\ updated = 0 /\ failed = 0 /\ nfiles = 0 /\ summary = FALSE
    /\ V2Idle

\* lines 468-478: one turn of the loop of main
Process(f, readable, lines) ==
    /\ f \in jsonl_files
    /\ \E r \in {IF readable THEN convert_conversation(f, lines, tree, device, clock)
                  ELSE Unreadable(tree)} :
           /\ tree' = r.tree
           /\ last' = [file |-> f, lines |-> lines, result |-> r.result,
                       session_id |-> r.session_id, output_file |-> r.output_file,
                       now |-> clock]
           \* (None, "Error") is a tuple and so is true at line 471
           /\ created' = IF r.result = "Created" THEN created + 1 ELSE created
           /\ updated' = IF r.result = "Updated" THEN updated + 1 ELSE updated
           /\ failed' = IF r.result = "None" THEN failed + 1 ELSE failed
    /\ jsonl_files' = jsonl_files \ {f}
    /\ nfiles' = nfiles + 1
    /\ nconv' = nconv + 1
    /\ UNCHANGED <<clock, device, summary, resVars, migVars, fnVars, source,
                   converted_sessions, converted, skipped, run>>

\* lines 480-488: the summary
Summarize ==
    /\ jsonl_files = {} /\ ~summary
    /\ summary' = TRUE
    /\ UNCHANGED <<convVars, resVars, migVars, fnVars, jsonl_files, created, updated, failed,
                   nfiles, source, converted_sessions, converted, skipped, run>>

BatchNext ==
    \/ \E f \in BFiles, readable \in BOOLEAN, lines \in BLogs : Process(f, readable, lines)
    \/ Summarize

SpecBatch == BatchInit /\ [][BatchNext]_vars

(* Claims about a batch *)
Failure == last.result \in {"None", "Error"}

\* C14: when the summary of a batch is printed, created + updated + failed
\* is the number of input files processed (every failure is counted).
C14_FailuresCounted == summary => created + updated + failed = nfiles

\* C15: a turn of the loop leaves at every path either the file that was
\* there before or a complete artifact newly rendered, never an empty file.
C15_NoPartialArtifact ==
    [][\A p \in DOMAIN tree' :
          \/ p \in DOMAIN tree /\ tree'[p] = tree[p]
          \/ last'.result \in {"Created", "Updated"} /\ p = last'.output_file
             /\ tree'[p] # <<>>]_vars

\* C16: across the turns of a batch, failed or not, every path that holds an
\* artifact before a turn holds one after it.
C16_NeverDeletes == [][DOMAIN tree \subseteq DOMAIN tree']_vars

\* a turn failed in writing at the path where an earlier turn had created the
\* artifact, and the path still holds a file
C16_Witness ==
    /\ created = 1 /\ nfiles > 1 /\ Failure
    /\ last.output_file # <<>> /\ last.output_file \in DOMAIN tree

-----------------------------------------------------------------------------
(* Functions of the converters applied alone: the status of a conversation *)
(* in the three converters, the rendering of a tool result                  *)
MaxHalfMinutes == 20
MaxOver == 3

\* seconds from the first timestamp to the last
Spans == {k * 30 : k \in (0 - MaxHalfMinutes)..MaxHalfMinutes}

\* s written 2^n times
RECURSIVE Twice(_, _)
Twice(s, n) == IF n = 0 THEN s ELSE Twice(s \o s, n - 1)

\* a text of n characters: "<" first, then the letter c up to the character
\* at the place ResultLimit, which is "|", then "z"
Body(n, c) ==
    Take("<" \o Take(Twice(c, 10), ResultLimit - 2) \o "|" \o Twice("z", 10), n)

\* the lengths of the tool results: about ResultLimit, none, half as much again
BodyLengths ==
    {0, 1, ResultLimit + ResultLimit \div 2}
        \cup ((ResultLimit - MaxOver)..(ResultLimit + MaxOver))

Bodies == {Body(n, c) : n \in BodyLengths, c \in {"a", "b"}}

FnInit ==
    /\ clock = ClockStart /\ device = "PC" /\ tree = <<>> /\ last = NoCall /\ nconv = 0
    /\ ResolveIdle /\ MigIdle /\ BatchIdle /\ FnIdle

\* the duration (int of the quotient) and the status of one conversion
Status(fn, has_errors, seconds) ==
    /\ arg' = [fn |-> fn, has_errors |-> has_errors, seconds |-> seconds]
    /\ \E duration_minutes \in {IntDiv(seconds, 60)} :
           out' = [fn |-> fn,
                   duration_minutes |-> duration_minutes,
                   status |-> CASE fn = "v1" -> status_v1(has_errors, duration_minutes)
                                [] fn = "v2" -> status_v2(has_errors, duration_minutes)
                                [] fn = "v3" -> status_v3(has_errors, duration_minutes)]
    /\ UNCHANGED <<convVars, resVars, migVars, batchVars>>

\* the payloads normalized: none, plain texts, a text content, parts
Payloads ==
    {NoMessage, StrMessage("Fix the bug in main.py"), StrMessage("the content is"),
     DictMessage("hi"), PartsMessage("hi"), OddPartMessage}
        \cup {ToolUseMessage(name, input, "ls") :
                 name \in {"Bash", "Read"},
                 input \in {"missing", "null", "str", "list", "dict"}}
        \cup {ToolResultMessage(body) : body \in Bodies}

\* extract_content of a message
Extract(message) ==
    /\ arg' = [fn |-> "extract_content", message |-> message]
    /\ \E r \in {extract_content(message)} :
           out' = [fn |-> "extract_content", raises |-> r.raises, text |-> r.text]
    /\ UNCHANGED <<convVars, resVars, migVars, batchVars>>

\* session keys: explicit ones, a synthesized one, explicit ones that begin
\* with the word unknown
PathKeys == {"ab12cd34ef", "a", "unknown_0000000d4ddb", "unknown-77", "unknownhost"}

\* the path of a session by the converter and by the consolidator, under the
\* same root
Place(session_id, device_name) ==
    /\ arg' = [fn |-> "path", session_id |-> session_id, device_name |-> device_name]
    /\ out' = [fn |-> "path",
               session_file_path |->
                   get_session_file_path(session_id, device_name, OutputBaseDir),
               new_path |-> get_new_path(session_id, device_name, OutputBaseDir)]
    /\ UNCHANGED <<convVars, resVars, migVars, batchVars>>

\* timestamps of entries: one instant written with Z and with offsets, and
\* a later one
Stamps ==
    {"2024-01-15T10:30:00Z", "2024-01-15T10:30:00+00:00", "2024-01-15T12:30:00+02:00",
     "2024-01-15T05:30:00-05:00", "2024-01-15T10:37:00Z", "2024-01-15T12:37:00+02:00"}

\* lines 278-285: the duration of a log from its first and last timestamps
Duration(first_timestamp, last_timestamp) ==
    /\ arg' = [fn |-> "duration", first_timestamp |-> first_timestamp,
               last_timestamp |-> last_timestamp]
    /\ \E first \in {format_timestamp(first_timestamp, clock)},
          lst \in {format_timestamp(last_timestamp, clock)} :
           out' = [fn |-> "duration", first_dt |-> first.dt, last_dt |-> lst.dt,
                   duration_minutes |-> IntDiv(lst.dt - first.dt, 60)]
    /\ UNCHANGED <<convVars, resVars, migVars, batchVars>>

FnNext ==
    \/ \E fn \in {"v1", "v2", "v3"}, has_errors \in BOOLEAN, seconds \in Spans :
            Status(fn, has_errors, seconds)
    \/ \E message \in Payloads : Extract(message)
    \/ \E session_id \in PathKeys, device_name \in DeviceNames : Place(session_id, device_name)
    \/ \E first_timestamp \in Stamps, last_timestamp \in Stamps :
            Duration(first_timestamp, last_timestamp)

SpecFn == FnInit /\ [][FnNext]_vars

\* C17: in v1, v2 and v3, when the error flag is set the status is
\* completed_with_errors whatever the duration; when it is clear the status
\* follows the duration (completed or in_progress in v1 and v2, active or
\* completed in v3).
C17_StatusDerivation ==
    arg.fn \in {"v1", "v2", "v3"} =>
        IF arg.has_errors THEN out.status = "completed_with_errors"
        ELSE IF arg.fn = "v3" THEN out.status \in {"active", "completed"}
        ELSE out.status \in {"completed", "in_progress"}

\* C20: a tool result of n characters is rendered whole when n is at most
\* 1000, and as its first 1000 characters followed by the truncation marker
\* when n is more.
C20_TruncationLaw ==
    (arg.fn = "extract_content" /\ arg.message.kind = "tool_result") =>
        LET body == arg.message.text
            n == Len(body)
            shown == IF n <= 1000 THEN body
                     ELSE SubSeq(body, 1, 1000) \o TruncationMarker
        IN  /\ ~out.raises
            /\ out.text = ResultHeading \o "\n" \o Fence \o "\n" \o shown \o "\n" \o Fence

\* a result of 1001 characters has been rendered, cut after the "|" at 1000
C20_Witness ==
    /\ arg.fn = "extract_content" /\ arg.message.kind = "tool_result"
    /\ Len(arg.message.text) = 1001
    /\ HasSubstr(out.text, "|" \o TruncationMarker)

\* C21: a payload that is itself a text is returned by extract_content
\* unchanged.
C21_PlainTextUnchanged ==
    (arg.fn = "extract_content" /\ arg.message.kind = "str") =>
        (~out.raises /\ out.text = arg.message.text)

\* C22: extract_content raises for no payload, and returns the empty string
\* for an absent one.
C22_NeverRaises ==
    arg.fn = "extract_content" =>
        (~out.raises /\ (arg.message.kind = "none" => out.text = ""))

\* C24: for every session key and device label the path of get_new_path is
\* the path of get_session_file_path.
C24_SamePath == arg.fn = "path" => out.new_path = out.session_file_path

-----------------------------------------------------------------------------
(* The converter with the skip set: claude-to-markdown-v2.py.  Its           *)
(* format_timestamp, clean_filename, extract_content and                     *)
(* decode_project_path are those of v3, line for line.                       *)
MaxRuns == 2
DigestLenV2 == 8
FilenameLen == 80

HexChars == "abcdef0123456789-"

\* '\n'.join(lines)
JoinLines(lines) ==
    LET J[i \in 0..Len(lines)] ==
            IF i = 0 THEN ""
            ELSE IF i = 1 THEN lines[1]
            ELSE J[i - 1] \o "\n" \o lines[i]
    IN  J[Len(lines)]

\* re.search(r'session_id:\s*([a-f0-9-]+)', content): group 1 of the leftmost
\* match, None where nothing matches
session_id_search(content) ==
    LET n == Len(content)
        word == "session_id:"
        \* the first place at or after i that holds no white space
        After(i) == CHOOSE j \in i..(n + 1) :
                        /\ \A k \in i..(j - 1) : IsSpace(Char(content, k))
                        /\ j = n + 1 \/ ~IsSpace(Char(content, j))
        IsHex(k) == k <= n /\ Contains(HexChars, Char(content, k))
        \* the last place of the run of hex characters that begins at j
        RunEnd(j) == CHOOSE k \in j..n :
                        /\ \A m \in j..k : IsHex(m)
                        /\ ~IsHex(k + 1)
        starts == {i \in 1..(n - Len(word) + 1) :
                      /\ SubSeq(content, i, i + Len(word) - 1) = word
                      /\ IsHex(After(i + Len(word)))}
    IN  IF starts = {} THEN None
        ELSE LET i == CHOOSE i \in starts : \A k \in starts : i <= k
                 j == After(i + Len(word))
             IN  Some(SubSeq(content, j, RunEnd(j)))

\* load_converted_sessions: the ids found in the files beneath Devices
load_converted_sessions(t) ==
    {m.val : m \in {session_id_search(JoinLines(t[p])) :
                       p \in {q \in DOMAIN t : IsUnder(q, old_devices_dir)}} \ {None}}

\* lines 232-237: the session id, a digest of the path of the log when the
\* first entry has none
session_id_v2(jsonl_file, lines) ==
    LET session_id == Get(lines[1].sessionId, "unknown")
    IN  IF session_id = "unknown"
        THEN "unknown_" \o HexStr(TextHash(jsonl_file.parent \o "/" \o jsonl_file.name),
                                   DigestLenV2)
        ELSE session_id

\* lines 341-370: the transcript of one line; the pictographs of the
\* headings are left out
MessageLinesV2(entry, now) ==
    LET t == format_timestamp(Get(entry.timestamp, ""), now)
    IN  IF ~entry.json THEN <<>>
        ELSE IF entry.type = "user"
        THEN <<"## User [" \o t.time_str \o "]", extract_content(entry.message).text, "">>
        ELSE IF entry.type = "assistant"
        THEN <<"## Assistant [" \o t.time_str \o "]", extract_content(entry.message).text, "">>
        ELSE <<>>

\* lines 245-383, the session not skipped: the file rendered and its place.
\* The lines platform, user, project_name, tools_used, tags and model are
\* functions of the log and the machine alone and are left out; the
\* backquotes about the short id are written as quotes.
render_v2(jsonl_file, lines, dev, now, session_id) ==
    CHOOSE r \in
        {[result |-> "Converted",
          session_id |-> session_id,
          output_file |->
              OutputBaseDir \o
              <<"Devices", dev, SubSeq(first.date_str, 1, 4), SubSeq(first.date_str, 6, 7),
                SubSeq(first.date_str, 9, 10),
                first.date_str \o "_" \o Replace(first.time_str, ":", "") \o "_"
                    \o clean_filename(title, FilenameLen) \o ".md">>,
          content |->
              << "---",
                 "# Obsidian Bases Properties",
                 "device: " \o dev,
                 "date: " \o first.date_str,
                 "timestamp: " \o Get(lines[1].timestamp, ""),
                 "session_id: " \o session_id,
                 "project_path: " \o decode_project_path(jsonl_file.parent),
                 "conversation_title: " \o title,
                 "message_count: " \o NatStr(Len(lines)),
                 "duration_minutes: " \o IntStr(duration_minutes),
                 "status: " \o status_v2(has_errors, duration_minutes),
                 "has_errors: " \o (IF has_errors THEN "true" ELSE "false"),
                 "---",
                 "",
                 "# " \o title,
                 "",
                 "**Session:** '" \o Take(session_id, 8) \o "' | **Device:** " \o dev
                     \o " | **Date:** " \o first.date_str \o " " \o first.time_str,
                 "",
                 "---",
                 "" >> \o body] :
            first \in {format_timestamp(Get(lines[1].timestamp, ""), now)},
            duration_minutes \in
                {IF lines[Len(lines)].timestamp = None THEN 0
                 ELSE IntDiv(format_timestamp(lines[Len(lines)].timestamp.val, now).dt
                               - format_timestamp(Get(lines[1].timestamp, ""), now).dt, 60)},
            has_errors \in {\E i \in 1..Len(lines) : lines[i].err},
            title \in {conversation_title(lines, session_id)},
            body \in {LET B[i \in 0..Len(lines)] ==
                              IF i = 0 THEN <<>> ELSE B[i - 1] \o MessageLinesV2(lines[i], now)
                      IN  B[Len(lines)]}} : TRUE

\* v2's convert_conversation.  returned is what main receives: None, or the
\* session id of the file written.
convert_conversation_v2(jsonl_file, lines, t, dev, now, done) ==
    IF lines = <<>> THEN
        [result |-> "None", returned |-> None, session_id |-> "", tree |-> t]
    ELSE IF ~EntriesParse(lines) THEN
        [result |-> "Error", returned |-> None, session_id |-> "", tree |-> t]
    ELSE IF session_id_v2(jsonl_file, lines) \in done THEN
        \* lines 239-242
        [result |-> "Skip", returned |-> None,
         session_id |-> session_id_v2(jsonl_file, lines), tree |-> t]
    ELSE IF \E i \in 1..Len(lines) : MessageRaises(lines[i]) THEN
        [result |-> "Error", returned |-> None,
         session_id |-> session_id_v2(jsonl_file, lines), tree |-> t]
    ELSE
        CHOOSE x \in
            {[result |-> w.result,
              returned |-> IF w.result = "Error" THEN None ELSE Some(w.session_id),
              session_id |-> session_id_v2(jsonl_file, lines),
              tree |-> w.tree] :
                w \in {write_file(t, r) :
                         r \in {render_v2(jsonl_file, lines, dev, now, session_id) :
                                  session_id \in {session_id_v2(jsonl_file, lines)}}}} : TRUE

V2Files == {SourceFile("-home-p", "a.jsonl"), SourceFile("-home-q", "b.jsonl")}

\* the logs of the source directory: none, one user entry with no session
\* id, with a hexadecimal one, with one that is not hexadecimal, with an
\* empty one, a log whose first line is not JSON
V2Logs ==
    {<<>>, <<Malformed>>}
        \cup {<<Entry("user", Some(T1), sid, DictMessage("hi"), FALSE)>> :
                 sid \in {None, Some("ab12cd34ef"), Some("session-1"), Some("")}}

V2Init ==
    /\ clock = ClockStart /\ device = "PC" /\ tree = <<>> /\ last = NoCall /\ nconv = 0
    /\ ResolveIdle /\ MigIdle /\ FnIdle
    /\ jsonl_files = {} /\ created = 0 /\ updated = 0 /\ failed = 0 /\ nfiles = 0
    /\ summary = FALSE
    /\ source \in [V2Files -> V2Logs]
    /\ converted_sessions = {} /\ converted = 0 /\ skipped = 0 /\ run = 0

\* main, lines 394-433: a run begins; the ids converted are read from the
\* output tree and the logs are listed
V2Start ==
    /\ run < MaxRuns
    /\ run = 0 \/ summary
    /\ run' = run + 1
    /\ converted_sessions' = load_converted_sessions(tree)
    /\ jsonl_files' = DOMAIN source
    /\ converted' = 0 /\ skipped' = 0 /\ failed' = 0 /\ nfiles' = 0
    /\ summary' = FALSE
    /\ UNCHANGED <<convVars, resVars, migVars, fnVars, created, updated, source>>

\* main, lines 435-449: one turn of the loop
V2Process(f) ==
    /\ f \in jsonl_files
    /\ \E r \in {convert_conversation_v2(f, source[f], tree, device, clock,
                                         converted_sessions)} :
           /\ tree' = r.tree
           /\ last' = [file |-> f, lines |-> source[f], result |-> r.result,
                       session_id |-> r.session_id, output_file |-> <<>>, now |-> clock]
           /\ IF r.returned # None /\ r.returned.val # ""
              THEN /\ converted' = converted + 1
                   /\ converted_sessions' = converted_sessions \cup {r.returned.val}
                   /\ UNCHANGED <<failed, skipped>>
              ELSE IF r.returned = None
              THEN /\ failed' = failed + 1
                   /\ UNCHANGED <<converted, converted_sessions, skipped>>
              ELSE /\ skipped' = skipped + 1
                   /\ UNCHANGED <<converted, converted_sessions, failed>>
    /\ jsonl_files' = jsonl_files \ {f}
    /\ nfiles' = nfiles + 1
    /\ nconv' = nconv + 1
    /\ UNCHANGED <<clock, device, resVars, migVars, fnVars, created, updated, summary,
                   source, run>>

\* main, lines 451-459: the summary
V2Summarize ==
    /\ run > 0 /\ jsonl_files = {} /\ ~summary
    /\ summary' = TRUE
    /\ UNCHANGED <<convVars, resVars, migVars, fnVars, jsonl_files, created, updated, failed,
                   nfiles, source, converted_sessions, converted, skipped, run>>

V2Next ==
    \/ V2Start
    \/ \E f \in V2Files : V2Process(f)
    \/ V2Summarize

SpecV2 == V2Init /\ [][V2Next]_vars

(* Claims about the v2 batch *)
\* the session id of the log just processed is recorded by a file of the tree
AlreadyInTree(t, session_id) ==
    \E p \in DOMAIN t : \E i \in 1..Len(t[p]) : t[p][i] = "session_id: " \o session_id

\* C23: a log whose session has an artifact in the output tree is skipped,
\* whatever its session key, the synthesized ones included.
C23_ConvertedAtMostOnce ==
    [][(nfiles' = nfiles + 1 /\ last'.session_id # ""
          /\ AlreadyInTree(tree, last'.session_id))
        => (last'.result = "Skip" /\ tree' = tree)]_vars

\* C25: a file skipped as already converted is counted under skipped and not
\* under failed, and converted + skipped + failed is the number of files
\* processed.
C25_SummaryClassifies ==
    [][(nfiles' = nfiles + 1)
        => /\ (last'.result = "Skip" => (skipped' = skipped + 1 /\ failed' = failed))
           /\ converted' + skipped' + failed' = nfiles']_vars

\* the instant a timestamp of Stamps denotes, in seconds: the written fields
\* less the offset
Instant(stamp) ==
    LET text == IF Contains(stamp, "Z") THEN Replace(stamp, "Z", "+00:00") ELSE stamp
        offset == (DecVal(SubSeq(text, 21, 22)) * 60 + DecVal(SubSeq(text, 24, 25))) * 60
    IN  FieldSeconds(NaiveFields(text))
            - (IF Char(text, 20) = "-" THEN 0 - offset ELSE offset)

\* C26: two timestamps that denote the same instant normalize to the same
\* value, and a log whose first and last entry denote the same instant has
\* duration 0.
C26_SameInstantSameValue ==
    (arg.fn = "duration" /\ Instant(arg.first_timestamp) = Instant(arg.last_timestamp))
        => (out.first_dt = out.last_dt /\ out.duration_minutes = 0)

-----------------------------------------------------------------------------
(* Further claims about the consolidator *)
\* the run reached the end of main
Finished == pc = "done" /\ raised = "" /\ old_devices_dir \in dirs

\* C27: when the consolidator finishes, no directory strictly beneath Devices
\* is empty, those emptied by the pruning of their last sub-directory
\* included.
C27_NoEmptyDirectory ==
    Finished => \A x \in dirs : IsUnder(x, old_devices_dir) => HasEntries(x, dirs, tree)

\* the run finished, and the year directory of the legacy files is gone, which
\* was emptied only by the pruning of the month directory in it
C27_Witness ==
    /\ Finished /\ files_migrated > 0
    /\ LegacyA \in DOMAIN orig
    /\ SubSeq(LegacyA, 1, 3) \notin dirs
    /\ SubSeq(LegacyA, 1, 2) \in dirs

\* every artifact of t lies at the path of the v3 scheme for the session id it
\* records and the device directory it is in
Canonical(t) ==
    /\ DOMAIN t # {}
    /\ \A p \in DOMAIN t :
          /\ extract_session_id(t[p]) # None
          /\ p = get_session_file_path(extract_session_id(t[p]).val, p[2], OutputBaseDir)

\* C29: run over a tree whose artifacts all lie at their canonical paths, the
\* consolidator ends without error and leaves every artifact at its path
\* with its content.
C29_IdempotentOnCanonical ==
    (Canonical(orig) /\ nvanish = 0 /\ pc \in {"done", "crashed"})
        => /\ raised = ""
           /\ \A p \in DOMAIN orig : p \in DOMAIN tree /\ tree[p] = orig[p]

\* C30: for every group of more than one artifact a member of the group is
\* selected, whatever the counts recorded, and the run goes on.
C30_RepresentativeSelected ==
    /\ raised # "AttributeError"
    /\ \A i \in 1..Len(log) :
          Len(sessions[i].files) > 1
              => \E n \in 1..Len(sessions[i].files) : sessions[i].files[n] = log[i].best_file

-----------------------------------------------------------------------------
(* A further claim about a batch *)
IsPrefix(a, b) == Len(a) <= Len(b) /\ SubSeq(b, 1, Len(a)) = a

\* two logs that are not one conversation: neither is the other grown, and
\* they do not bear the same session id
DifferentConversations(a, b) ==
    /\ ~IsPrefix(a, b) /\ ~IsPrefix(b, a)
    /\ a[1].sessionId = None \/ b[1].sessionId = None \/ a[1].sessionId # b[1].sessionId

\* C28: two different log files that are different conversations, converted
\* one after the other in a batch, are not written to the same path.
C28_DistinctLogsDistinctPaths ==
    [][(/\ nfiles' = nfiles + 1
        /\ last.result \in {"Created", "Updated"} /\ last'.result \in {"Created", "Updated"}
        /\ last'.file # last.file
        /\ DifferentConversations(last.lines, last'.lines))
       => last'.output_file # last.output_file]_vars

=============================================================================
